---------------------------- MODULE Spec2Model ----------------------------
(***************************************************************************)
(* Association-rule recommender (src/main.py): the rule miner, the rule    *)
(* store (apriori_rules.json), the Thompson-sampling selector and the      *)
(* statistics collection (recommendation_stats).                            *)
(*                                                                         *)
(* Numbers that the code keeps as floats (support, confidence, lift) are   *)
(* IEEE 754 doubles here: <<h, l, e>> stands for (h * 2^27 + l) * 2^e with  *)
(* a significand of 53 bits, and division rounds to nearest, ties to even. *)
(***************************************************************************)
EXTENDS Integers, Sequences, FiniteSets, TLC

VARIABLES
    hashSeed,   \* iteration order of list(frozenset) in this process
    phase,      \* "boot": start_application is still before server.serve()
    file,       \* RULES_FILE_PATH: [exists, content], content a token sequence
    client,     \* db_connection.client
    stats,      \* recommendation_stats: identity -> documents, oldest first
    miner,      \* one record per running update_apriori_rules_sync
    reader,     \* one record per GET /api/rules request
    rec,        \* one record per select_recommendation / recommendationAPI call
    fb,         \* one record per POST /api/recommendation-feedback request
    committed,  \* history: the rule list of the last write that was closed
    faults,     \* history: how many operations have failed so far
    events,     \* history: the sessions of the transactions written since the
                \* process started, oldest first
    connection  \* db_connection._lock and the calls of connect and
                \* ensure_connection that are followed statement by statement

vars == <<hashSeed, phase, file, client, stats, miner, reader, rec, fb,
          committed, faults, events, connection>>

-----------------------------------------------------------------------------
(* Bounds of the model *)

\* Largest number of transaction documents one fetch returns.
MaxBaskets == 1

\* Largest number of operations on MongoDB or on the file system that fail
\* in one run.
MaxFaults == 1

\* Largest number of transactions of a list handed to apriori on its own.
MaxMineBaskets == 6

\* Largest number of writes of transactions that are followed.
MaxEvents == 3

-----------------------------------------------------------------------------
(* Item identifiers and sequences *)

None == "None"

\* Product identifiers, in the order sorted() gives them.
ItemOrder == <<"a", "b", "c">>

Items == {ItemOrder[i] : i \in 1..Len(ItemOrder)}

Range(s) == {s[i] : i \in 1..Len(s)}

Rank(x) == CHOOSE i \in 1..Len(ItemOrder) : ItemOrder[i] = x

RECURSIVE Sorted(_)
Sorted(S) ==
    IF S = {} THEN <<>>
    ELSE LET m == CHOOSE x \in S : \A y \in S : Rank(x) <= Rank(y)
         IN  <<m>> \o Sorted(S \ {m})

RECURSIVE Reversed(_)
Reversed(s) == IF s = <<>> THEN <<>> ELSE Reversed(Tail(s)) \o <<Head(s)>>

\* list(frozenset): the order is that of the hash table, fixed per process.
ListOf(S, seed) == IF seed = 0 THEN Sorted(S) ELSE Reversed(Sorted(S))

RECURSIVE Flatten(_)
Flatten(ss) == IF ss = <<>> THEN <<>> ELSE Head(ss) \o Flatten(Tail(ss))

\* itertools.combinations(seq, k), in its order.
RECURSIVE Combinations(_, _)
Combinations(seq, k) ==
    IF k = 0 THEN << <<>> >>
    ELSE IF Len(seq) < k THEN <<>>
    ELSE LET rest == Combinations(Tail(seq), k - 1)
         IN  [i \in 1..Len(rest) |-> <<Head(seq)>> \o rest[i]]
                 \o Combinations(Tail(seq), k)

RECURSIVE JoinComma(_)
JoinComma(s) ==
    IF s = <<>> THEN ""
    ELSE IF Len(s) = 1 THEN s[1]
    ELSE s[1] \o "," \o JoinComma(Tail(s))

-----------------------------------------------------------------------------
(* Exact rationals <<numerator, denominator>>: the values that the floats of
   the code stand for *)

RECURSIVE GCD(_, _)
GCD(a, b) == IF b = 0 THEN a ELSE GCD(b, a % b)

Ratio(n, d) == LET g == GCD(n, d) IN <<n \div g, d \div g>>

RatDiv(x, y) == Ratio(x[1] * y[2], x[2] * y[1])

RatLess(x, y) == x[1] * y[2] < y[1] * x[2]

-----------------------------------------------------------------------------
(* Floats *)

\* A significand is kept in two limbs, <<h, l>> standing for h * Limb + l.
Limb == 2^27

\* The significand of a float has its bit 52 set: h >= TopLimb.
TopLimb == 2^25

BigGeq(x, y) == x[1] > y[1] \/ (x[1] = y[1] /\ x[2] >= y[2])

BigSub(x, y) ==
    IF x[2] >= y[2] THEN <<x[1] - y[1], x[2] - y[2]>>
    ELSE <<x[1] - y[1] - 1, x[2] + Limb - y[2]>>

BigDouble(x) ==
    IF 2 * x[2] >= Limb THEN <<2 * x[1] + 1, 2 * x[2] - Limb>>
    ELSE <<2 * x[1], 2 * x[2]>>

BigInc(x) == IF x[2] + 1 = Limb THEN <<x[1] + 1, 0>> ELSE <<x[1], x[2] + 1>>

FloatZero == <<0, 0, 0>>

RECURSIVE Normalized(_, _)
Normalized(big, e) ==
    IF big[1] >= TopLimb THEN <<big[1], big[2], e>>
    ELSE Normalized(BigDouble(big), e - 1)

\* float(n) of an int 0 <= n < 2^27
FloatOf(n) == IF n = 0 THEN FloatZero ELSE Normalized(<<0, n>>, 0)

\* One more bit of the quotient: qr is <<quotient, remainder>> so far
DivBit(qr, d) ==
    LET q2 == BigDouble(qr[1])
        r2 == BigDouble(qr[2])
    IN  IF BigGeq(r2, d) THEN <<BigInc(q2), BigSub(r2, d)>> ELSE <<q2, r2>>

\* The bits of the quotient, until it has the 53 of a significand
RECURSIVE DivBits(_, _)
DivBits(qr, d) == IF qr[1][1] >= TopLimb THEN qr ELSE DivBits(DivBit(qr, d), d)

\* x / y of two floats, y not zero
FloatDiv(x, y) ==
    IF x = FloatZero THEN FloatZero
    ELSE LET n == <<x[1], x[2]>>
             d == <<y[1], y[2]>>
             big == BigGeq(n, d)
             qr == IF big THEN DivBits(<< <<0, 1>>, BigSub(n, d) >>, d)
                   ELSE DivBits(<< <<0, 0>>, n >>, d)
             e == IF big THEN x[3] - y[3] - 52 ELSE x[3] - y[3] - 53
             q == qr[1]
             twice == BigDouble(qr[2])
             up == IF twice = d THEN q[2] % 2 = 1 ELSE BigGeq(twice, d)
             rounded == IF up THEN BigInc(q) ELSE q
         IN  IF rounded[1] = 2 * TopLimb THEN <<TopLimb, 0, e + 1>>
             ELSE <<rounded[1], rounded[2], e>>

\* x >= y of two floats that are not negative
FloatGeq(x, y) ==
    IF y = FloatZero THEN TRUE
    ELSE IF x = FloatZero THEN FALSE
    ELSE x[3] > y[3] \/ (x[3] = y[3] /\ BigGeq(<<x[1], x[2]>>, <<y[1], y[2]>>))

\* apriori(transactions, min_support=0.001, min_confidence=0.2, min_lift=1.0,
\*         min_length=2)
MinSupport == FloatDiv(FloatOf(1), FloatOf(1000))

MinConfidence == FloatDiv(FloatOf(1), FloatOf(5))

MinLift == FloatOf(1)

MinLength == 2

-----------------------------------------------------------------------------
(* apriori, as apyori computes it.  A transaction is a list of items.      *)

\* TransactionManager.calc_support
CalcSupport(T, S) ==
    IF S = {} THEN FloatOf(1)
    ELSE IF Len(T) = 0 THEN FloatZero
    ELSE FloatDiv(FloatOf(Cardinality({i \in 1..Len(T) : S \subseteq Range(T[i])})),
                  FloatOf(Len(T)))

\* TransactionManager.initial_candidates
InitialCandidates(T) ==
    LET items == UNION {Range(T[i]) : i \in 1..Len(T)}
        sorted == Sorted(items)
    IN  [i \in 1..Len(sorted) |-> <<sorted[i]>>]

\* create_next_candidates
CreateNextCandidates(prev, length) ==
    LET items == Sorted(UNION prev)
        tmp == Combinations(items, length)
        Closed(c) == \A i \in 1..Len(c) : (Range(c) \ {c[i]}) \in prev
    IN  IF length < 3 THEN tmp ELSE SelectSeq(tmp, Closed)

\* gen_support_records: the frequent itemsets, each a sorted tuple of items
RECURSIVE GenSupportRecords(_, _, _)
GenSupportRecords(T, candidates, length) ==
    IF candidates = <<>> THEN <<>>
    ELSE LET Frequent(c) == FloatGeq(CalcSupport(T, Range(c)), MinSupport)
             found == SelectSeq(candidates, Frequent)
             relations == {Range(c) : c \in Range(found)}
         IN  found \o GenSupportRecords(
                 T, CreateNextCandidates(relations, length + 1), length + 1)

\* gen_ordered_statistics and filter_ordered_statistics for one itemset,
\* each kept split turned into the rule_data of update_apriori_rules_sync
RuleData(T, record, base, seed) ==
    LET add == Range(record) \ Range(base)
        support == CalcSupport(T, Range(record))
        confidence == FloatDiv(support, CalcSupport(T, Range(base)))
        lift == FloatDiv(confidence, CalcSupport(T, add))
    IN  [antecedents |-> ListOf(Range(base), seed),
         consequents |-> ListOf(add, seed),
         support |-> support,
         confidence |-> confidence,
         lift |-> lift]

\* A bug: the lift of a split is not compared with min_lift
OrderedStatisticsNoLift(T, record, seed) ==
    LET bases == Flatten([k \in 1..Len(record) |-> Combinations(record, k - 1)])
        all == [i \in 1..Len(bases) |-> RuleData(T, record, bases[i], seed)]
        Kept(r) == FloatGeq(r.confidence, MinConfidence)
    IN  SelectSeq(all, Kept)

OrderedStatistics(T, record, seed) ==
    LET bases == Flatten([k \in 1..Len(record) |-> Combinations(record, k - 1)])
        all == [i \in 1..Len(bases) |-> RuleData(T, record, bases[i], seed)]
        Kept(r) == FloatGeq(r.confidence, MinConfidence) /\ FloatGeq(r.lift, MinLift)
    IN  SelectSeq(all, Kept)

\* The rules_list that the loop over apriori(...) builds.  apyori reads
\* min_support, min_confidence, min_lift and max_length: min_length is not
\* one of its parameters and has no effect.
Apriori(T, seed) ==
    LET records == GenSupportRecords(T, InitialCandidates(T), 1)
    IN  Flatten([i \in 1..Len(records) |-> OrderedStatistics(T, records[i], seed)])

\* recommendation_id of a rule
RecommendationId(rule) ==
    JoinComma(rule.antecedents) \o "->" \o JoinComma(rule.consequents)


-----------------------------------------------------------------------------
(* The rules file: json.dump, json.loads and writes through a descriptor   *)

\* A token of the file's text.  "nul" is a byte of a hole left by a write
\* beyond the end of the file.
Punct(t) == [t |-> t, v |-> <<>>]

Obj(rule) == [t |-> "obj", v |-> <<rule>>]

RECURSIVE DumpElements(_)
DumpElements(rules) ==
    IF rules = <<>> THEN <<>>
    ELSE IF Len(rules) = 1 THEN <<Obj(rules[1])>>
    ELSE <<Obj(rules[1]), Punct(",")>> \o DumpElements(Tail(rules))

\* json.dump(rules_list, file, indent=2): the text written
JsonDump(rules) ==
    IF rules = <<>> THEN <<Punct("[]")>>
    ELSE <<Punct("[")>> \o DumpElements(rules) \o <<Punct("]")>>

ParseError == [ok |-> FALSE, value |-> <<>>]

RECURSIVE LoadElements(_)
LoadElements(toks) ==
    IF Len(toks) = 0 \/ toks[1].t # "obj" THEN ParseError
    ELSE IF Len(toks) = 1 THEN [ok |-> TRUE, value |-> toks[1].v]
    ELSE IF toks[2].t # "," THEN ParseError
    ELSE LET rest == LoadElements(SubSeq(toks, 3, Len(toks)))
         IN  IF rest.ok THEN [ok |-> TRUE, value |-> toks[1].v \o rest.value]
             ELSE ParseError

\* json.loads(rules_content): ok is FALSE for json.JSONDecodeError
JsonLoads(content) ==
    IF Len(content) = 1 /\ content[1].t = "[]" THEN [ok |-> TRUE, value |-> <<>>]
    ELSE IF Len(content) < 2 \/ content[1].t # "[" \/ content[Len(content)].t # "]"
    THEN ParseError
    ELSE IF Len(content) = 2 THEN [ok |-> TRUE, value |-> <<>>]
    ELSE LoadElements(SubSeq(content, 2, Len(content) - 1))

\* rules_content.strip() is empty
IsBlank(content) == Len(content) = 0

\* write(2) of chunk at offset off
WriteAt(content, off, chunk) ==
    LET padded == IF Len(content) < off
                  THEN content \o [i \in 1..(off - Len(content)) |-> Punct("nul")]
                  ELSE content
    IN  SubSeq(padded, 1, off) \o chunk
            \o SubSeq(padded, off + Len(chunk) + 1, Len(padded))

\* What the body of get_rules answers for the text it read.
GetRulesResult(content) ==
    IF IsBlank(content) THEN [kind |-> "ok", rules |-> <<>>]
    ELSE LET parsed == JsonLoads(content)
         IN  IF parsed.ok THEN [kind |-> "ok", rules |-> parsed.value]
             ELSE [kind |-> "error500", rules |-> <<>>]

NotFound == [kind |-> "error404", rules |-> <<>>]

-----------------------------------------------------------------------------
(* MongoDB *)

\* MongoDBConnection.get_collection tests "self.client.is_connected"; the model
\* takes the test as passing whenever a client is held, which is what it does
\* where attribute access on the client gives a truthy object.
NewClient == "MongoClient"

\* MongoDBConnection.ensure_connection: the client it leaves and whether it
\* raises ConnectionFailure.  pingOk: the ping of the current client answers;
\* reconnectOk: the ping of a fresh client answers.
EnsureConnection(cl, pingOk, reconnectOk) ==
    IF cl # None /\ pingOk THEN [client |-> cl, raised |-> FALSE]
    ELSE IF reconnectOk THEN [client |-> NewClient, raised |-> FALSE]
    ELSE [client |-> None, raised |-> TRUE]

\* Calls of connect and ensure_connection that are followed statement by
\* statement: one from a request handler, on the loop of the server, and one
\* from a mining pass, which async_to_sync runs on a loop and a thread of its
\* own.
Callers == {"handler", "pass"}

IdleCaller ==
    [pc |-> "idle", op |-> "none", target |-> None, result |-> "none",
     left |-> None, leftPinged |-> FALSE]

\* pinged: the clients whose last ping was answered
IdleConn ==
    [locked |-> FALSE, pinged |-> {}, caller |-> [c \in Callers |-> IdleCaller]]

\* The client that a caller makes: MongoClient(self.uri, ...)
ClientOf(c) == "MongoClient:" \o c

\* collection.find_one({"recommendation_id": id}): the oldest such document
HasStats(st, id) == id \in DOMAIN st

NewStats == [successes |-> 0, failures |-> 0]

\* collection.insert_one({... "successes": 0, "failures": 0})
InsertOne(st, id) ==
    IF id \in DOMAIN st THEN [st EXCEPT ![id] = Append(@, NewStats)]
    ELSE st @@ (id :> <<NewStats>>)

\* The transaction documents of a find(): each a list of item entries, an
\* entry being its productId or None when it has none.
DocEntries == {"a", "b", None}

SortedEntries(S) == Sorted(S \ {None}) \o (IF None \in S THEN <<None>> ELSE <<>>)

Docs == {SortedEntries(S) : S \in SUBSET DocEntries}

SourceContents == UNION {[1..k -> Docs] : k \in 0..MaxBaskets}

\* The list comprehension of fetch_transactions_sync
Transactions(docs) ==
    LET HasItems(d) == d # <<>>
        HasProductId(e) == e # None
        kept == SelectSeq(docs, HasItems)
    IN  [i \in 1..Len(kept) |-> SelectSeq(kept[i], HasProductId)]

\* fetch_transactions_sync: what it returns.  failed: a PyMongoError or any
\* other exception was raised inside its try block.
FetchTransactionsSync(failed, docs) == IF failed THEN <<>> ELSE Transactions(docs)

-----------------------------------------------------------------------------
(* Processes *)

\* update_apriori_rules_sync runs once from start_application, before the
\* server accepts requests, and once per POST /api/update-rules after that,
\* each request in a thread of its own.
Miners == {"startup", "req1", "req2"}

Readers == {"r1"}

\* Calls of select_recommendation, through POST /api/recommendationAPI or
\* directly
Recs == {"s1"}

\* POST /api/recommendation-feedback requests
Fbs == {"f1", "f2"}

Absent == [kind |-> "absent", rules |-> <<>>]

\* late and response belong to the request that awaits the pass: the time
\* it has waited and what it has answered.
IdleMiner ==
    [pc |-> "idle", fetchFailed |-> FALSE, transactions |-> <<>>,
     mined |-> <<>>, n |-> 0, pending |-> <<>>, off |-> 0, overlapped |-> FALSE,
     late |-> FALSE, response |-> "none"]

IdleReader ==
    [pc |-> "idle", rules_content |-> <<>>, result |-> NotFound,
     pre |-> Absent, writing |-> {}]

NoResult == [kind |-> "pending", recs |-> <<>>]

IdleRec ==
    [pc |-> "idle", via |-> "endpoint", cart |-> {}, rules |-> <<>>,
     candidates |-> <<>>, i |-> 0, sampled |-> <<>>, result |-> NoResult]

IdleFb ==
    [pc |-> "idle", id |-> "", success |-> FALSE, update |-> "none",
     response |-> "pending"]

\* The function has returned: its locals are gone.
Returned == [IdleMiner EXCEPT !.pc = "done"]

\* rules_list of a miner: the rules appended so far
RulesList(m) == SubSeq(miner[m].mined, 1, miner[m].n)

Writing(m) == miner[m].pc = "write"


\* Whether an operation may fail now, and the count after it did or did not.
Outcomes == {FALSE} \cup (IF faults < MaxFaults THEN {TRUE} ELSE {})

Count(failed) == IF failed THEN faults + 1 ELSE faults

-----------------------------------------------------------------------------
(* Initial state: the module has been imported *)

Init ==
    /\ hashSeed \in {0, 1}
    /\ phase = "start"
    /\ file = [exists |-> FALSE, content |-> <<>>]
    /\ client = None
    /\ stats = <<>>
    /\ miner = [m \in Miners |-> IdleMiner]
    /\ reader = [r \in Readers |-> IdleReader]
    /\ rec = [p \in Recs |-> IdleRec]
    /\ fb = [f \in Fbs |-> IdleFb]
    /\ committed = Absent
    /\ faults = 0
    /\ events = <<>>
    /\ connection = IdleConn

-----------------------------------------------------------------------------
(* start_application *)

\* db_connection.connect(): an exception ends the process
Connect ==
    /\ phase = "start"
    /\ \E down \in Outcomes :
          LET conn == EnsureConnection(client, ~down, ~down)
          IN  /\ client' = conn.client
              /\ phase' = IF conn.raised THEN "crashed" ELSE "boot"
              /\ faults' = Count(down)
    /\ UNCHANGED <<hashSeed, events, connection, file, stats, miner, reader, rec, fb, committed>>

\* server.serve(), once the initial update_apriori_rules_sync has returned
Serve ==
    /\ phase = "boot"
    /\ miner["startup"].pc = "done"
    /\ phase' = "serving"
    /\ UNCHANGED <<hashSeed, events, connection, file, client, stats, miner, reader, rec, fb,
                   committed, faults>>

-----------------------------------------------------------------------------
(* update_apriori_rules_sync, in its own thread *)

CanRun(m) == IF m = "startup" THEN phase = "boot" ELSE phase = "serving"

\* transactions = fetch_transactions_sync()
MinerFetch(m) ==
    /\ CanRun(m)
    /\ miner[m].pc = "idle"
    /\ \E failed \in Outcomes, docs \in SourceContents :
          LET conn == EnsureConnection(client, ~failed, ~failed)
          IN  /\ client' = conn.client
              /\ faults' = Count(failed)
              /\ miner' = [miner EXCEPT
                     ![m].pc = "fetched",
                     ![m].fetchFailed = failed,
                     ![m].transactions = FetchTransactionsSync(failed, docs)]
    /\ UNCHANGED <<hashSeed, events, connection, phase, file, stats, reader, rec, fb, committed>>

\* rules_generator = apriori(...); rules_list = []
MinerApriori(m) ==
    /\ miner[m].pc = "fetched"
    /\ miner[m].transactions # <<>>
    /\ miner' = [miner EXCEPT
           ![m].pc = "loop",
           ![m].mined = Apriori(miner[m].transactions, hashSeed),
           ![m].n = 0]
    /\ UNCHANGED <<hashSeed, events, connection, phase, file, client, stats, reader, rec, fb,
                   committed, faults>>

\* One turn of the loop: rules_list.append(rule_data), then initialize_stats
\* up to its find_one.  ConnectionFailure from get_collection is caught by
\* the loop, a PyMongoError from find_one by initialize_stats.
MinerNextRule(m) ==
    /\ miner[m].pc = "loop"
    /\ miner[m].n < Len(miner[m].mined)
    /\ \E down \in Outcomes :
          LET conn == EnsureConnection(client, ~down, ~down)
              id == RecommendationId(miner[m].mined[miner[m].n + 1])
              absent == ~conn.raised /\ ~HasStats(stats, id)
          IN  /\ client' = conn.client
              /\ faults' = Count(down)
              /\ miner' = [miner EXCEPT
                     ![m].n = @ + 1,
                     ![m].pc = IF absent THEN "insert" ELSE "loop"]
    /\ UNCHANGED <<hashSeed, events, connection, phase, file, stats, reader, rec, fb, committed>>

\* initialize_stats: collection.insert_one, a PyMongoError only logged
MinerInsert(m) ==
    /\ miner[m].pc = "insert"
    /\ \E failed \in Outcomes :
          /\ faults' = Count(failed)
          /\ stats' = IF failed THEN stats
                      ELSE InsertOne(stats,
                               RecommendationId(miner[m].mined[miner[m].n]))
    /\ miner' = [miner EXCEPT ![m].pc = "loop"]
    /\ UNCHANGED <<hashSeed, events, connection, phase, file, client, reader, rec, fb, committed>>

\* Both writes of the function reach open(RULES_FILE_PATH, "w") here: the one
\* for no transactions and the one after the loop.
AtOpen(m) ==
    \/ miner[m].pc = "fetched" /\ miner[m].transactions = <<>>
    \/ miner[m].pc = "loop" /\ miner[m].n = Len(miner[m].mined)

\* A mode that keeps the old text: open(RULES_FILE_PATH, "r+")
OpenNoTruncate(f) == [exists |-> TRUE, content |-> f.content]

\* The file after open(RULES_FILE_PATH, "w")
OpenForWriting(f) == [exists |-> TRUE, content |-> <<>>]

\* open(RULES_FILE_PATH, "w"): creates the file or truncates it
MinerOpen(m) ==
    /\ AtOpen(m)
    /\ file' = OpenForWriting(file)
    /\ LET shared == \E o \in Miners \ {m} : Writing(o)
       IN  miner' = [o \in Miners |->
               IF o = m
               THEN [miner[m] EXCEPT !.pc = "write",
                                      !.pending = JsonDump(RulesList(m)),
                                      !.off = 0,
                                      !.overlapped = shared]
               ELSE IF Writing(o) THEN [miner[o] EXCEPT !.overlapped = TRUE]
               ELSE miner[o]]
    /\ UNCHANGED <<hashSeed, events, connection, phase, client, stats, reader, rec, fb, committed,
                   faults>>

\* open raises: the except clause logs it and the function returns
MinerOpenFails(m) ==
    /\ AtOpen(m)
    /\ faults < MaxFaults
    /\ faults' = faults + 1
    /\ miner' = [miner EXCEPT ![m] = Returned]
    /\ UNCHANGED <<hashSeed, events, connection, phase, file, client, stats, reader, rec, fb, committed>>

\* The buffer is flushed before json.dump has written everything.
MinerFlush(m) ==
    /\ Writing(m)
    /\ \E k \in 1..(Len(miner[m].pending) - 1) :
          /\ file' = [file EXCEPT !.content =
                 WriteAt(@, miner[m].off, SubSeq(miner[m].pending, 1, k))]
          /\ miner' = [miner EXCEPT
                 ![m].off = @ + k,
                 ![m].pending = SubSeq(@, k + 1, Len(@))]
    /\ UNCHANGED <<hashSeed, events, connection, phase, client, stats, reader, rec, fb, committed,
                   faults>>

\* The with block ends: the rest of the text is written and the file closed.
MinerClose(m) ==
    /\ Writing(m)
    /\ file' = [file EXCEPT !.content = WriteAt(@, miner[m].off, miner[m].pending)]
    /\ miner' = [miner EXCEPT ![m] = Returned]
    /\ committed' = [kind |-> IF miner[m].overlapped THEN "mixed" ELSE "rules",
                     rules |-> RulesList(m)]
    /\ UNCHANGED <<hashSeed, events, connection, phase, client, stats, reader, rec, fb, faults>>

MinerStep(m) ==
    \/ MinerFetch(m)
    \/ MinerApriori(m)
    \/ MinerNextRule(m)
    \/ MinerInsert(m)
    \/ MinerOpen(m)
    \/ MinerOpenFails(m)
    \/ MinerFlush(m)
    \/ MinerClose(m)

-----------------------------------------------------------------------------
(* GET /api/rules *)

\* os.path.exists(RULES_FILE_PATH)
ReaderExists(r) ==
    /\ phase = "serving"
    /\ reader[r].pc = "idle"
    /\ reader' = [reader EXCEPT
           ![r].pc = IF file.exists THEN "open" ELSE "done",
           ![r].result = NotFound]
    /\ UNCHANGED <<hashSeed, events, connection, phase, file, client, stats, miner, rec, fb,
                   committed, faults>>

\* rules_content = file.read() and the answer made of it
ReaderRead(r) ==
    /\ reader[r].pc = "open"
    /\ reader' = [reader EXCEPT
           ![r].pc = "done",
           ![r].rules_content = file.content,
           ![r].result = GetRulesResult(file.content),
           ![r].pre = committed,
           ![r].writing = {RulesList(m) : m \in {o \in Miners : Writing(o)}}]
    /\ UNCHANGED <<hashSeed, events, connection, phase, file, client, stats, miner, rec, fb,
                   committed, faults>>

ReaderStep(r) == ReaderExists(r) \/ ReaderRead(r)

-----------------------------------------------------------------------------
(* POST /api/recommendationAPI and ThompsonSampling.select_recommendation  *)

\* userItems as the request gives it: a JSON list of items, or text that
\* json.loads rejects
CartInputs ==
    {[valid |-> TRUE, items |-> c] : c \in SUBSET Items}
        \cup {[valid |-> FALSE, items |-> {}]}

\* set(user_items_list).issuperset(set(rule["antecedents"]))
Matches(cart, rule) == Range(rule.antecedents) \subseteq cart

\* A bug: any item in common in place of issuperset
FilterRulesAnyItem(rules, cart) ==
    SelectSeq(rules, LAMBDA rule : Range(rule.antecedents) \cap cart # {})

\* filtered_rules
FilterRules(rules, cart) == SelectSeq(rules, LAMBDA rule : Matches(cart, rule))

\* The list handed to select_recommendation
Candidates(rules, cart) == IF cart = {} THEN rules ELSE FilterRules(rules, cart)

Answer(kind, recs) == [kind |-> kind, recs |-> recs]

\* The request up to its first await: the rules file is read and parsed,
\* then userItems.
RecRequest(p) ==
    /\ phase = "serving"
    /\ rec[p].pc = "idle"
    /\ \E input \in CartInputs :
          LET parsed == JsonLoads(file.content)
              early ==
                  IF ~file.exists THEN Answer("error404", <<>>)
                  ELSE IF IsBlank(file.content) THEN Answer("ok", <<>>)
                  ELSE IF ~parsed.ok THEN Answer("error500", <<>>)
                  ELSE IF ~input.valid THEN Answer("error400", <<>>)
                  ELSE NoResult
          IN  rec' = [rec EXCEPT ![p] =
                  IF early # NoResult
                  THEN [IdleRec EXCEPT !.pc = "done", !.result = early]
                  ELSE [IdleRec EXCEPT !.pc = "ensure",
                                       !.rules = parsed.value,
                                       !.cart = input.items]]
    /\ UNCHANGED <<hashSeed, events, connection, phase, file, client, stats, miner, reader, fb,
                   committed, faults>>

\* await db_connection.ensure_connection(), then the choice of the
\* candidates; what is raised becomes a 500
RecEnsure(p) ==
    /\ rec[p].pc = "ensure"
    /\ \E down \in Outcomes :
          LET conn == EnsureConnection(client, ~down, ~down)
              cands == Candidates(rec[p].rules, rec[p].cart)
          IN  /\ client' = conn.client
              /\ faults' = Count(down)
              /\ rec' = [rec EXCEPT ![p] =
                     IF conn.raised
                     THEN [@ EXCEPT !.pc = "done",
                                    !.result = Answer("error500", <<>>)]
                     ELSE IF cands = <<>>
                     THEN [@ EXCEPT !.pc = "done", !.result = Answer("ok", <<>>)]
                     ELSE [@ EXCEPT !.pc = "select", !.candidates = cands]]
    /\ UNCHANGED <<hashSeed, events, connection, phase, file, stats, miner, reader, fb, committed>>

\* Lists of rules for a call of select_recommendation from outside the
\* endpoint: no rule, one rule, all rules.
DirectInputs(rules) == {<<>>, rules} \cup {<<rules[k]>> : k \in 1..Len(rules)}

\* select_recommendation(rules) called on its own, with rules of the file
RecDirect(p) ==
    /\ phase = "serving"
    /\ rec[p].pc = "idle"
    /\ file.exists
    /\ JsonLoads(file.content).ok
    /\ \E rules \in DirectInputs(JsonLoads(file.content).value) :
          rec' = [rec EXCEPT ![p] =
              [IdleRec EXCEPT !.pc = "select",
                              !.via = "direct",
                              !.candidates = rules]]
    /\ UNCHANGED <<hashSeed, events, connection, phase, file, client, stats, miner, reader, fb,
                   committed, faults>>

\* What select_recommendation gives its caller: the endpoint wraps the rule
\* in a list and turns an exception into a 500.
Selected(p, recs) == [rec[p] EXCEPT !.pc = "done", !.result = Answer("ok", recs)]

Raised(p) ==
    [rec[p] EXCEPT !.pc = "done",
                   !.result = IF rec[p].via = "direct" THEN Answer("raised", <<>>)
                              ELSE Answer("error500", <<>>)]

\* if not rules: return None; collection = await self.get_collection()
SelectEnter(p) ==
    /\ rec[p].pc = "select"
    /\ \E down \in Outcomes :
          LET conn == EnsureConnection(client, ~down, ~down)
          IN  IF rec[p].candidates = <<>>
              THEN /\ rec' = [rec EXCEPT ![p] = Selected(p, <<>>)]
                   /\ down = FALSE
                   /\ UNCHANGED <<client, faults>>
              ELSE /\ client' = conn.client
                   /\ faults' = Count(down)
                   /\ rec' = [rec EXCEPT ![p] =
                          IF conn.raised THEN Raised(p)
                          ELSE [@ EXCEPT !.pc = "loop", !.i = 1, !.sampled = <<>>]]
    /\ UNCHANGED <<hashSeed, events, connection, phase, file, stats, miner, reader, fb, committed>>

CurrentId(p) == RecommendationId(rec[p].candidates[rec[p].i])

\* stats = find_one(...): a PyMongoError skips the rule
SelectFind(p) ==
    /\ rec[p].pc = "loop"
    /\ rec[p].i <= Len(rec[p].candidates)
    /\ \E failed \in Outcomes :
          /\ faults' = Count(failed)
          /\ rec' = [rec EXCEPT ![p] =
                 IF failed THEN [@ EXCEPT !.i = @ + 1]
                 ELSE IF HasStats(stats, CurrentId(p)) THEN [@ EXCEPT !.pc = "sample"]
                 ELSE [@ EXCEPT !.pc = "init"]]
    /\ UNCHANGED <<hashSeed, events, connection, phase, file, client, stats, miner, reader, fb,
                   committed>>

\* initialize_stats up to its find_one.  ConnectionFailure from
\* get_collection leaves initialize_stats and skips the rule; a PyMongoError
\* from find_one is logged inside it and the rule is sampled.
SelectInit(p) ==
    /\ rec[p].pc = "init"
    /\ \E outcome \in {"ok"} \cup (IF faults < MaxFaults
                                   THEN {"noConnection", "findFails"} ELSE {}) :
          LET conn == EnsureConnection(client, outcome # "noConnection",
                                       outcome # "noConnection")
          IN  /\ client' = conn.client
              /\ faults' = Count(outcome # "ok")
              /\ rec' = [rec EXCEPT ![p] =
                     IF conn.raised THEN [@ EXCEPT !.pc = "loop", !.i = @ + 1]
                     ELSE IF outcome = "findFails" \/ HasStats(stats, CurrentId(p))
                     THEN [@ EXCEPT !.pc = "sample"]
                     ELSE [@ EXCEPT !.pc = "insert"]]
    /\ UNCHANGED <<hashSeed, events, connection, phase, file, stats, miner, reader, fb, committed>>

\* initialize_stats: insert_one, a PyMongoError only logged
SelectInsert(p) ==
    /\ rec[p].pc = "insert"
    /\ \E failed \in Outcomes :
          /\ faults' = Count(failed)
          /\ stats' = IF failed THEN stats ELSE InsertOne(stats, CurrentId(p))
    /\ rec' = [rec EXCEPT ![p].pc = "sample"]
    /\ UNCHANGED <<hashSeed, events, connection, phase, file, client, miner, reader, fb, committed>>

\* sampled_value = np.random.beta(...); sampled_values.append(...)
SelectSample(p) ==
    /\ rec[p].pc = "sample"
    /\ rec' = [rec EXCEPT ![p].pc = "loop",
                          ![p].sampled = Append(@, rec[p].i),
                          ![p].i = @ + 1]
    /\ UNCHANGED <<hashSeed, events, connection, phase, file, client, stats, miner, reader, fb,
                   committed, faults>>

\* The rule of the largest sample: any sampled rule can have it.  With no
\* sample, random.choice(rules).
SelectReturn(p) ==
    /\ rec[p].pc = "loop"
    /\ rec[p].i > Len(rec[p].candidates)
    /\ \E k \in (IF rec[p].sampled # <<>> THEN Range(rec[p].sampled)
                 ELSE 1..Len(rec[p].candidates)) :
          rec' = [rec EXCEPT ![p] = Selected(p, <<rec[p].candidates[k]>>)]
    /\ UNCHANGED <<hashSeed, events, connection, phase, file, client, stats, miner, reader, fb,
                   committed, faults>>

RecStep(p) ==
    \/ RecRequest(p)
    \/ RecEnsure(p)
    \/ RecDirect(p)
    \/ SelectEnter(p)
    \/ SelectFind(p)
    \/ SelectInit(p)
    \/ SelectInsert(p)
    \/ SelectSample(p)
    \/ SelectReturn(p)

-----------------------------------------------------------------------------
(* POST /api/recommendation-feedback *)

\* A bug: {"$set": {field: 1}} in place of {"$inc": {field: 1}}
SetToOne(doc, success) ==
    IF success THEN [doc EXCEPT !.successes = 1] ELSE [doc EXCEPT !.failures = 1]

\* A bug: {"$inc": {"successes": 1, "failures": 1}}
IncrementBoth(doc, success) ==
    [doc EXCEPT !.successes = @ + 1, !.failures = @ + 1]

\* {"$inc": {"successes": 1}} or {"$inc": {"failures": 1}}
Increment(doc, success) ==
    IF success THEN [doc EXCEPT !.successes = @ + 1]
    ELSE [doc EXCEPT !.failures = @ + 1]

\* collection.update_one({"recommendation_id": id}, ...): the oldest document
\* of that identity is changed, and nothing when there is none
UpdateOne(st, id, success) ==
    IF HasStats(st, id) THEN [st EXCEPT ![id][1] = Increment(@, success)] ELSE st

\* Identities a request can name: those of rules the miner can write, and
\* one of no rule.
FeedbackIds == {"->a", "a->b", "x->y"}

\* The request up to await db_connection.ensure_connection()
FbRequest(f) ==
    /\ phase = "serving"
    /\ fb[f].pc = "idle"
    /\ \E id \in FeedbackIds, success \in BOOLEAN, down \in Outcomes :
          LET conn == EnsureConnection(client, ~down, ~down)
          IN  /\ client' = conn.client
              /\ faults' = Count(down)
              /\ fb' = [fb EXCEPT ![f] =
                     IF conn.raised
                     THEN [IdleFb EXCEPT !.pc = "done", !.id = id,
                                         !.success = success,
                                         !.response = "error500"]
                     ELSE [IdleFb EXCEPT !.pc = "update", !.id = id,
                                         !.success = success]]
    /\ UNCHANGED <<hashSeed, events, connection, phase, file, stats, miner, reader, rec, committed>>

\* update_stats: get_collection, whose ConnectionFailure becomes a 500, then
\* update_one, whose PyMongoError is only logged
FbUpdate(f) ==
    /\ fb[f].pc = "update"
    /\ \E outcome \in {"ok"} \cup (IF faults < MaxFaults
                                   THEN {"noConnection", "updateFails"} ELSE {}) :
          LET conn == EnsureConnection(client, outcome # "noConnection",
                                       outcome # "noConnection")
          IN  /\ client' = conn.client
              /\ faults' = Count(outcome # "ok")
              /\ stats' = IF outcome = "ok"
                          THEN UpdateOne(stats, fb[f].id, fb[f].success)
                          ELSE stats
              /\ fb' = [fb EXCEPT
                     ![f].pc = "done",
                     ![f].update = IF outcome # "ok" THEN outcome
                                   ELSE IF HasStats(stats, fb[f].id) THEN "matched"
                                   ELSE "noMatch",
                     ![f].response = IF conn.raised THEN "error500"
                                     ELSE "recorded"]
    /\ UNCHANGED <<hashSeed, events, connection, phase, file, miner, reader, rec, committed>>

FbStep(f) == FbRequest(f) \/ FbUpdate(f)

-----------------------------------------------------------------------------
(* Specifications *)

\* The rule store: the start, one regeneration request and one reader
Next ==
    \/ Connect
    \/ Serve
    \/ \E m \in {"startup", "req1"} : MinerStep(m)
    \/ \E r \in Readers : ReaderStep(r)

Spec == Init /\ [][Next]_vars

\* The selector: the server is up, the rules file holds what a regeneration
\* wrote for one of these transaction lists, and the statistics collection
\* holds either nothing or one document per rule.
SelectBaskets ==
    { << <<"a">> >>,
      << <<"a", "b">>, <<"a", "b">>, <<"a", "c">> >>,
      << <<"a", "b", "c">> >> }

StatsFor(rules) ==
    [id \in {RecommendationId(rules[k]) : k \in 1..Len(rules)} |-> <<NewStats>>]

InitSelect ==
    /\ hashSeed \in {0, 1}
    /\ phase = "serving"
    /\ \E T \in SelectBaskets :
          committed = [kind |-> "rules", rules |-> Apriori(T, hashSeed)]
    /\ file = [exists |-> TRUE, content |-> JsonDump(committed.rules)]
    /\ stats \in {<<>>, StatsFor(committed.rules)}
    /\ client = NewClient
    /\ miner = [m \in Miners |-> IF m = "startup" THEN Returned ELSE IdleMiner]
    /\ reader = [r \in Readers |-> IdleReader]
    /\ rec = [p \in Recs |-> IdleRec]
    /\ fb = [f \in Fbs |-> IdleFb]
    /\ faults = 0
    /\ events = <<>>
    /\ connection = IdleConn

NextSelect == \E p \in Recs : RecStep(p)

SpecSelect == InitSelect /\ [][NextSelect]_vars

\* The statistics: the start and feedback requests
NextFeedback ==
    \/ Connect
    \/ Serve
    \/ MinerStep("startup")
    \/ \E f \in Fbs : FbStep(f)

SpecFeedback == Init /\ [][NextFeedback]_vars

\* Time passes while update_rules_endpoint awaits asyncio.to_thread(...): the
\* await has no timeout, so nothing happens to the request.
TimePasses(m) ==
    /\ miner[m].pc \notin {"idle", "done"}
    /\ ~miner[m].late
    /\ miner' = [miner EXCEPT ![m].late = TRUE]
    /\ UNCHANGED <<hashSeed, events, connection, phase, file, client, stats, reader, rec, fb,
                   committed, faults>>

\* The pass has returned: return {"message": "Rules update process
\* initiated. Check logs for status."}
UpdateRulesReturn(m) ==
    /\ miner[m].pc = "done"
    /\ miner[m].response = "none"
    /\ miner' = [miner EXCEPT ![m].response = "initiated"]
    /\ UNCHANGED <<hashSeed, events, connection, phase, file, client, stats, reader, rec, fb,
                   committed, faults>>

\* POST /api/update-rules against the clock
NextEndpoint ==
    \/ Connect
    \/ Serve
    \/ MinerStep("startup")
    \/ MinerStep("req1")
    \/ TimePasses("req1")
    \/ UpdateRulesReturn("req1")

SpecEndpoint == Init /\ [][NextEndpoint]_vars

\* async with self._lock, first half of Lock.acquire: the test of _locked.
\* asyncio.Lock is not safe between threads: the two callers are on two
\* threads, so the other one may run between the test and the assignment.
\* When the lock is held by the caller of the other loop, acquire waits or
\* raises RuntimeError (the lock, or the future it waits on, belongs to a
\* different event loop).
LockTest(c) ==
    /\ phase = "serving"
    /\ connection.caller[c].pc = "idle"
    /\ \E op \in {"connect", "ensure_connection"} :
          \/ /\ ~connection.locked
             /\ connection' = [connection EXCEPT !.caller[c].pc = "acquire",
                                     !.caller[c].op = op]
          \/ /\ connection.locked
             /\ connection' = [connection EXCEPT
                    !.caller[c] = [@ EXCEPT !.pc = "done", !.op = op,
                                            !.result = "RuntimeError",
                                            !.left = client,
                                            !.leftPinged = client \in connection.pinged]]
    /\ UNCHANGED <<hashSeed, events, phase, file, client, stats, miner, reader,
                   rec, fb, committed, faults>>

\* Second half of Lock.acquire: self._locked = True; then the test of
\* self.client
LockSet(c) ==
    /\ connection.caller[c].pc = "acquire"
    /\ connection' = [connection EXCEPT
           !.locked = TRUE,
           !.caller[c].pc = IF client = None THEN "reconnect" ELSE "ping",
           !.caller[c].target = client]
    /\ UNCHANGED <<hashSeed, events, phase, file, client, stats, miner, reader,
                   rec, fb, committed, faults>>

\* The end of the async with block: Lock.release raises RuntimeError when the
\* lock is not held any more.
Leave(c, result) ==
    [connection.caller[c] EXCEPT
        !.pc = "done",
        !.result = IF connection.locked THEN result ELSE "RuntimeError"]

\* _is_connected: the ping of the client held when the call began
Ping(c) ==
    /\ connection.caller[c].pc = "ping"
    /\ \E failed \in Outcomes :
          /\ faults' = Count(failed)
          /\ connection' =
                IF failed
                THEN [connection EXCEPT !.caller[c].pc = "reconnect",
                                  !.pinged = @ \ {connection.caller[c].target}]
                ELSE [connection EXCEPT
                         !.locked = FALSE,
                         !.pinged = @ \cup {connection.caller[c].target},
                         !.caller[c] =
                             [Leave(c, "returned") EXCEPT
                                 !.left = client,
                                 !.leftPinged =
                                     client \in connection.pinged
                                                \cup {connection.caller[c].target}]]
    /\ UNCHANGED <<hashSeed, events, phase, file, client, stats, miner, reader,
                   rec, fb, committed>>

\* self.client = MongoClient(...)
Reconnect(c) ==
    /\ connection.caller[c].pc = "reconnect"
    /\ client' = ClientOf(c)
    /\ connection' = [connection EXCEPT !.caller[c].pc = "ping2",
                            !.caller[c].target = ClientOf(c),
                            !.pinged = @ \ {ClientOf(c)}]
    /\ UNCHANGED <<hashSeed, events, phase, file, stats, miner, reader, rec, fb,
                   committed, faults>>

\* The ping of the new client: answered, return self; not answered,
\* self.client = None and raise
PingNew(c) ==
    /\ connection.caller[c].pc = "ping2"
    /\ \E failed \in Outcomes :
          /\ faults' = Count(failed)
          /\ client' = IF failed THEN None ELSE client
          /\ connection' =
                IF failed
                THEN [connection EXCEPT
                         !.locked = FALSE,
                         !.caller[c] =
                             [Leave(c, "ConnectionFailure") EXCEPT
                                 !.left = None, !.leftPinged = FALSE]]
                ELSE [connection EXCEPT
                         !.locked = FALSE,
                         !.pinged = @ \cup {connection.caller[c].target},
                         !.caller[c] =
                             [Leave(c, "returned") EXCEPT
                                 !.left = client,
                                 !.leftPinged =
                                     client \in connection.pinged
                                                \cup {connection.caller[c].target}]]
    /\ UNCHANGED <<hashSeed, events, phase, file, stats, miner, reader, rec, fb,
                   committed>>

CallerStep(c) ==
    \/ LockTest(c)
    \/ LockSet(c)
    \/ Ping(c)
    \/ Reconnect(c)
    \/ PingNew(c)

\* The connection: the server is up, the client of the start is held (or
\* None, after a reconnection that failed), and a handler and a mining pass
\* each make one call
InitConnect ==
    /\ hashSeed \in {0, 1}
    /\ phase = "serving"
    /\ file = [exists |-> TRUE, content |-> JsonDump(<<>>)]
    /\ client \in {None, NewClient}
    /\ connection = [IdleConn EXCEPT !.pinged = {client} \ {None}]
    /\ stats = <<>>
    /\ miner = [m \in Miners |-> IF m = "startup" THEN Returned ELSE IdleMiner]
    /\ reader = [r \in Readers |-> IdleReader]
    /\ rec = [p \in Recs |-> IdleRec]
    /\ fb = [f \in Fbs |-> IdleFb]
    /\ committed = [kind |-> "rules", rules |-> <<>>]
    /\ faults = 0
    /\ events = <<>>

NextConnect == \E c \in Callers : CallerStep(c)

SpecConnect == InitConnect /\ [][NextConnect]_vars

\* The statistics collection under all its users: the mining pass of the
\* start, then a recommendation request and a feedback request
NextStats ==
    \/ Connect
    \/ Serve
    \/ MinerStep("startup")
    \/ \E p \in Recs : RecStep(p)
    \/ FbStep("f1")

SpecStats == Init /\ [][NextStats]_vars

\* Two regeneration requests at once: the server is up and the pass of the
\* start, which fetched no transaction, has written the empty list.
InitRegen ==
    /\ hashSeed \in {0, 1}
    /\ phase = "serving"
    /\ file = [exists |-> TRUE, content |-> JsonDump(<<>>)]
    /\ client = NewClient
    /\ stats = <<>>
    /\ miner = [m \in Miners |-> IF m = "startup" THEN Returned ELSE IdleMiner]
    /\ reader = [r \in Readers |-> IdleReader]
    /\ rec = [p \in Recs |-> IdleRec]
    /\ fb = [f \in Fbs |-> IdleFb]
    /\ committed = [kind |-> "rules", rules |-> <<>>]
    /\ faults = 0
    /\ events = <<>>
    /\ connection = IdleConn

NextRegen == \E m \in {"req1", "req2"} : MinerStep(m)

SpecRegen == InitRegen /\ [][NextRegen]_vars

\* The transactions collection is written by the shop, one document per
\* cart session.  Nothing in this process is told of a write: there is no
\* change stream, no polling and no handler for it.
Sessions == {"s1", "s2"}

BasketWritten(s) ==
    /\ phase \in {"boot", "serving"}
    /\ Len(events) < MaxEvents
    /\ events' = Append(events, s)
    /\ UNCHANGED <<hashSeed, connection, phase, file, client, stats, miner, reader, rec, fb,
                   committed, faults>>

\* Regeneration against writes of transactions
NextWatch ==
    \/ Connect
    \/ Serve
    \/ \E m \in {"startup", "req1"} : MinerStep(m)
    \/ \E s \in Sessions : BasketWritten(s)

SpecWatch == Init /\ [][NextWatch]_vars

\* Mining on its own: the pass that start_application runs has fetched one
\* of these transaction lists, and no operation fails.  apriori reads a list
\* through the items of each transaction and the number of transactions that
\* hold an itemset, so one order of each collection is enough.
MineDocs == << <<"a">>, <<"b">>, <<"a", "b">>, <<"a", "c">>, <<"a", "b", "c">> >>

MineInputs ==
    UNION {{[i \in 1..k |-> MineDocs[s[i]]] :
               s \in {t \in [1..k -> 1..Len(MineDocs)] :
                         \A i \in 1..(k - 1) : t[i] <= t[i + 1]}} :
           k \in 0..MaxMineBaskets}

InitMine ==
    /\ hashSeed \in {0, 1}
    /\ phase = "boot"
    /\ file = [exists |-> FALSE, content |-> <<>>]
    /\ client = NewClient
    /\ stats = <<>>
    /\ \E T \in MineInputs :
          miner = [m \in Miners |->
                      IF m = "startup"
                      THEN [IdleMiner EXCEPT !.pc = "fetched", !.transactions = T]
                      ELSE IdleMiner]
    /\ reader = [r \in Readers |-> IdleReader]
    /\ rec = [p \in Recs |-> IdleRec]
    /\ fb = [f \in Fbs |-> IdleFb]
    /\ committed = Absent
    /\ faults = MaxFaults
    /\ events = <<>>
    /\ connection = IdleConn

NextMine ==
    \/ MinerApriori("startup")
    \/ MinerNextRule("startup")
    \/ MinerInsert("startup")
    \/ MinerOpen("startup")
    \/ MinerClose("startup")

SpecMine == InitMine /\ [][NextMine]_vars

-----------------------------------------------------------------------------
(* Mining *)

\* The thresholds as numbers
ExactMinSupport == <<1, 1000>>

ExactMinConfidence == <<1, 5>>

ExactMinLift == <<1, 1>>

\* The fraction of the transactions of T that contain every item of S
ExactSupport(T, S) ==
    Ratio(Cardinality({i \in 1..Len(T) : S \subseteq Range(T[i])}), Len(T))

ExactConfidence(T, A, C) == RatDiv(ExactSupport(T, A \cup C), ExactSupport(T, A))

ExactLift(T, A, C) == RatDiv(ExactConfidence(T, A, C), ExactSupport(T, C))

\* The split A -> C of the itemset A \cup C meets min_confidence and min_lift
MeetsThresholds(T, A, C) ==
    /\ ~RatLess(ExactConfidence(T, A, C), ExactMinConfidence)
    /\ ~RatLess(ExactLift(T, A, C), ExactMinLift)

IsFrequent(T, X) ==
    /\ ExactSupport(T, X)[1] > 0
    /\ ~RatLess(ExactSupport(T, X), ExactMinSupport)

\* C11: every rule of the list that a mining pass writes has, over the
\* transactions that were mined, support >= min_support, confidence >=
\* min_confidence and lift >= min_lift, as numbers and as the floats stored;
\* a pass that fetched no transaction writes the empty list.
C11_ThresholdsMet ==
    \A m \in Miners :
        Writing(m) =>
            LET T == miner[m].transactions
            IN  /\ T = <<>> => /\ file.exists
                               /\ miner[m].pending = JsonDump(<<>>)
                /\ \A i \in 1..miner[m].n :
                       LET rule == miner[m].mined[i]
                           A == Range(rule.antecedents)
                           C == Range(rule.consequents)
                       IN  /\ IsFrequent(T, A \cup C)
                           /\ MeetsThresholds(T, A, C)
                           /\ FloatGeq(rule.support, MinSupport)
                           /\ FloatGeq(rule.confidence, MinConfidence)
                           /\ FloatGeq(rule.lift, MinLift)

\* Rules are written of which one has two antecedents and one a lift above
\* 1, while a split of a frequent itemset is left out for its lift.
C11_Witness ==
    \E m \in Miners :
        /\ Writing(m)
        /\ \E i \in 1..miner[m].n : Len(miner[m].mined[i].antecedents) = 2
        /\ \E i \in 1..miner[m].n :
               LET rule == miner[m].mined[i]
               IN  RatLess(ExactMinLift,
                           ExactLift(miner[m].transactions,
                                     Range(rule.antecedents),
                                     Range(rule.consequents)))
        /\ IsFrequent(miner[m].transactions, {"a", "b"})
        /\ ~MeetsThresholds(miner[m].transactions, {"a"}, {"b"})

\* The rules of a list with antecedents A and consequents C
RulesOf(rules, A, C) ==
    {i \in 1..Len(rules) : /\ Range(rules[i].antecedents) = A
                           /\ Range(rules[i].consequents) = C}

\* C12: the list that a mining pass writes has, for every frequent itemset
\* and every split of it into antecedents and consequents (the consequents
\* not empty), exactly one rule when the split meets min_confidence and
\* min_lift and none when it does not; the rules of one itemset have the
\* same support; [[a,b],[a,b],[a,c]] gives a -> b with support 2/3 and
\* confidence 2/3.
C12_OneRulePerSplit ==
    \A m \in Miners :
        (Writing(m) /\ miner[m].transactions # <<>>) =>
            LET T == miner[m].transactions
                rules == RulesList(m)
            IN  /\ \A X \in SUBSET Items : \A A \in SUBSET X :
                       (A # X /\ IsFrequent(T, X)) =>
                           Cardinality(RulesOf(rules, A, X \ A))
                               = IF MeetsThresholds(T, A, X \ A) THEN 1 ELSE 0
                /\ \A i, j \in 1..Len(rules) :
                       (Range(rules[i].antecedents) \cup Range(rules[i].consequents)
                          = Range(rules[j].antecedents) \cup Range(rules[j].consequents))
                           => rules[i].support = rules[j].support
                /\ T = << <<"a", "b">>, <<"a", "b">>, <<"a", "c">> >> =>
                       \E i \in 1..Len(rules) :
                           /\ rules[i].antecedents = <<"a">>
                           /\ rules[i].consequents = <<"b">>
                           /\ rules[i].support = FloatDiv(FloatOf(2), FloatOf(3))
                           /\ rules[i].confidence = FloatDiv(FloatOf(2), FloatOf(3))

-----------------------------------------------------------------------------
(* Regeneration on writes of transactions *)

\* A step starts a mining pass
PassStarts == \E m \in Miners : miner[m].pc = "idle" /\ miner'[m].pc # "idle"

\* C13: the write of a transaction starts a mining pass exactly when it is
\* the first since the process started or its session is not the session of
\* the write before it.
C13_RemineOnSessionChange ==
    [][\A s \in Sessions :
          events' = Append(events, s) =>
              (PassStarts <=> (events = <<>> \/ events[Len(events)] # s))]_vars

\* C14: whenever no mining pass has the rules file open, the file holds a
\* complete rule list: its text parses, is the text of the list it parses
\* to, and that list is the one of the pass that closed the file last.
C14_StoreHoldsOneRuleSet ==
    (file.exists /\ \A m \in Miners : ~Writing(m)) =>
        /\ JsonLoads(file.content).ok
        /\ file.content = JsonDump(JsonLoads(file.content).value)
        /\ JsonLoads(file.content).value = committed.rules

-----------------------------------------------------------------------------
(* Rule store: reads against replaces *)

\* What a read answers when the store holds exactly the rule list c.
AnswerFor(c) ==
    IF c.kind = "absent" THEN NotFound ELSE [kind |-> "ok", rules |-> c.rules]

HasRead(r) == reader[r].pc = "done" /\ reader[r].result.kind # "error404"

\* C1: a read of the rules file that runs while update_apriori_rules_sync
\* writes it answers with the complete rule list of before the write or with
\* the complete rule list being written, never with anything else.
C1_ReadSeesPreOrPost ==
    \A r \in Readers :
        reader[r].pc = "done" =>
            reader[r].result \in
                {AnswerFor(reader[r].pre)}
                    \cup {[kind |-> "ok", rules |-> w] : w \in reader[r].writing}

\* C3: a read answers 404 when the file does not exist, 500 when its text
\* is not JSON, and a rule list only when the text parses as one; text that
\* does not parse (zero bytes or blanks included) is never answered as an
\* empty rule list.
C3_OutcomesDistinguished ==
    \A r \in Readers :
        /\ (reader[r].pc = "done" /\ reader[r].result.kind = "error404")
               => reader[r].rules_content = <<>>
        /\ HasRead(r) =>
               /\ (reader[r].result.kind = "ok") = JsonLoads(reader[r].rules_content).ok
               /\ (reader[r].result.kind = "error500")
                      = ~JsonLoads(reader[r].rules_content).ok

\* C7: after a failed read of the transactions the caller of
\* fetch_transactions_sync holds something other than what a successful read
\* of zero transactions gives it.
C7_SourceUnavailableSignalled ==
    \A m \in Miners :
        (miner[m].pc = "fetched" /\ miner[m].fetchFailed)
            => miner[m].transactions # FetchTransactionsSync(FALSE, <<>>)

\* C8: every rule of a rule list being written to the rules file has at
\* least min_length items in antecedents and consequents together, and no
\* item in both.
C8_MinLengthAndDisjoint ==
    \A m \in Miners :
        Writing(m) =>
            \A i \in 1..miner[m].n :
                LET rule == miner[m].mined[i]
                IN  /\ Len(rule.antecedents) + Len(rule.consequents) >= MinLength
                    /\ Range(rule.antecedents) \cap Range(rule.consequents) = {}

\* C9: a read made while no write is open, after a write closed, answers
\* with exactly the rule list of that write: the same rules in the same
\* order with the same fields, the empty list included.
C9_RoundTrip ==
    \A r \in Readers :
        (HasRead(r) /\ reader[r].writing = {} /\ reader[r].pre.kind = "rules")
            => reader[r].result = [kind |-> "ok", rules |-> reader[r].pre.rules]

C9_Witness ==
    \E r \in Readers :
        /\ HasRead(r)
        /\ reader[r].writing = {}
        /\ reader[r].pre.kind = "rules"
        /\ Len(reader[r].pre.rules) >= 2
        /\ reader[r].result.kind = "ok"

C9_WitnessEmpty ==
    \E r \in Readers :
        /\ HasRead(r)
        /\ reader[r].writing = {}
        /\ reader[r].pre = [kind |-> "rules", rules |-> <<>>]
        /\ reader[r].result.kind = "ok"

-----------------------------------------------------------------------------
(* Statistics and feedback *)

\* C2: a feedback request whose identity has no document in
\* recommendation_stats is answered with the error UnknownRule, never as
\* recorded, and leaves the collection as it was.
C2_UnknownRuleRejected ==
    [][\A f \in Fbs :
          (fb[f].pc = "update" /\ fb'[f].pc = "done" /\ fb'[f].update = "noMatch")
              => (stats' = stats /\ fb'[f].response = "UnknownRule")]_vars

\* Feedback requests of one identity and one kind whose update_one returned
\* having matched a document
Applied(id, success) ==
    Cardinality({f \in Fbs : /\ fb[f].pc = "done"
                             /\ fb[f].id = id
                             /\ fb[f].success = success
                             /\ fb[f].update = "matched"})

\* C5: once every feedback request has returned, the document of an
\* identity counts exactly the successes and exactly the failures that were
\* applied to it, whatever the order the requests ran in.
C5_NoLostUpdate ==
    (\A f \in Fbs : fb[f].pc \in {"idle", "done"})
        => \A id \in DOMAIN stats :
               /\ stats[id][1].successes = Applied(id, TRUE)
               /\ stats[id][1].failures = Applied(id, FALSE)

C5_Witness ==
    /\ \A f \in Fbs : /\ fb[f].pc = "done"
                      /\ fb[f].id = "->a"
                      /\ fb[f].success
                      /\ fb[f].update = "matched"
    /\ HasStats(stats, "->a")
    /\ stats["->a"][1].successes = Cardinality(Fbs)

\* The documents of a collection, as <<identity, position>>
DocsOf(st) == UNION {{<<id, k>> : k \in 1..Len(st[id])} : id \in DOMAIN st}

\* C15: a feedback that update_one applied adds 1 to successes (success) or
\* to failures (not success) of the document of its identity and changes
\* nothing else in the collection; no step of a mining pass, a selection or
\* a feedback removes a document, lowers a counter or makes one negative.
C15_FeedbackFrame ==
    [][/\ \A d \in DocsOf(stats) :
              /\ d \in DocsOf(stats')
              /\ stats'[d[1]][d[2]].successes >= stats[d[1]][d[2]].successes
              /\ stats'[d[1]][d[2]].failures >= stats[d[1]][d[2]].failures
       /\ \A d \in DocsOf(stats') :
              stats'[d[1]][d[2]].successes >= 0 /\ stats'[d[1]][d[2]].failures >= 0
       /\ \A f \in Fbs :
              (fb[f].pc = "update" /\ fb'[f].pc = "done" /\ fb'[f].update = "matched")
                  => LET old == stats[fb[f].id][1]
                         new == stats'[fb[f].id][1]
                     IN  /\ DocsOf(stats') = DocsOf(stats)
                         /\ new.successes
                                = old.successes + (IF fb[f].success THEN 1 ELSE 0)
                         /\ new.failures
                                = old.failures + (IF fb[f].success THEN 0 ELSE 1)
                         /\ \A d \in DocsOf(stats) \ {<<fb[f].id, 1>>} :
                                stats'[d[1]][d[2]] = stats[d[1]][d[2]]
      ]_vars

\* A failure was recorded for one identity while another identity has a
\* document, after a selection ran.
C15_Witness ==
    /\ fb["f1"].pc = "done"
    /\ fb["f1"].update = "matched"
    /\ ~fb["f1"].success
    /\ stats[fb["f1"].id][1] = [successes |-> 0, failures |-> 1]
    /\ Cardinality(DOMAIN stats) >= 2
    /\ \E p \in Recs : rec[p].pc = "done" /\ rec[p].result.recs # <<>>

-----------------------------------------------------------------------------
(* Selection *)

Sampling(p) == rec[p].pc = "sample"

\* C4: a rule of which select_recommendation is about to draw the Beta
\* sample has a document in recommendation_stats.
C4_StatsBeforeSampling ==
    \A p \in Recs : Sampling(p) => HasStats(stats, CurrentId(p))

InSelect(p) == rec[p].pc \in {"select", "loop", "init", "insert", "sample"}

Recommended(p) ==
    rec[p].pc = "done" /\ rec[p].result.kind = "ok" /\ rec[p].result.recs # <<>>

\* C6: with a cart that is not empty the endpoint hands select_recommendation
\* exactly the rules of the file whose antecedents are all in the cart, so a
\* recommended rule has its antecedents in the cart and a cart that no rule
\* matches gets no recommendation; with an empty cart it hands over every
\* rule of the file.
C6_FilterByCart ==
    \A p \in Recs :
        rec[p].via = "endpoint" =>
            /\ (InSelect(p) \/ Recommended(p)) =>
                   IF rec[p].cart = {} THEN rec[p].candidates = rec[p].rules
                   ELSE /\ \A k \in 1..Len(rec[p].candidates) :
                               Range(rec[p].candidates[k].antecedents)
                                   \subseteq rec[p].cart
                        /\ \A k \in 1..Len(rec[p].rules) :
                               Range(rec[p].rules[k].antecedents) \subseteq rec[p].cart
                                   => rec[p].rules[k] \in Range(rec[p].candidates)
            /\ Recommended(p) =>
                   /\ rec[p].result.recs[1] \in Range(rec[p].candidates)
                   /\ rec[p].cart # {} =>
                          Range(rec[p].result.recs[1].antecedents) \subseteq rec[p].cart
            /\ (rec[p].pc = "done" /\ rec[p].result.kind = "ok"
                    /\ rec[p].rules # <<>> /\ rec[p].cart # {}
                    /\ \A k \in 1..Len(rec[p].rules) :
                           ~(Range(rec[p].rules[k].antecedents) \subseteq rec[p].cart))
                   => rec[p].result.recs = <<>>

\* Cart {a}: a rule with antecedents {a, b} is in the file and is not a
\* candidate, and the rule recommended has antecedents {a}.
C6_Witness ==
    \E p \in Recs :
        /\ rec[p].via = "endpoint"
        /\ Recommended(p)
        /\ rec[p].cart = {"a"}
        /\ \E k \in 1..Len(rec[p].rules) :
               /\ Range(rec[p].rules[k].antecedents) = {"a", "b"}
               /\ rec[p].rules[k] \notin Range(rec[p].candidates)
        /\ rec[p].result.recs[1].antecedents = <<"a">>

\* C10: select_recommendation of no rule returns None and raises nothing;
\* select_recommendation of one rule returns that rule.
C10_EmptyAndSingleton ==
    \A p \in Recs :
        (rec[p].pc = "done" /\ (rec[p].via = "direct" \/ rec[p].candidates # <<>>))
            => /\ rec[p].candidates = <<>> => rec[p].result = Answer("ok", <<>>)
               /\ Len(rec[p].candidates) = 1
                      => rec[p].result = Answer("ok", rec[p].candidates)

\* The candidates of a call: the list given to select_recommendation, or the
\* list that the endpoint is to give it
CandidatesOf(p) ==
    IF rec[p].via = "direct" THEN rec[p].candidates
    ELSE Candidates(rec[p].rules, rec[p].cart)

\* C16: a call with candidates ends with one of the candidates, whatever
\* fails on the way to recommendation_stats: it neither raises nor answers
\* with an error.
C16_FallbackOnStatsFailure ==
    \A p \in Recs :
        (rec[p].pc = "done" /\ CandidatesOf(p) # <<>>) =>
            /\ rec[p].result.kind = "ok"
            /\ Len(rec[p].result.recs) = 1
            /\ rec[p].result.recs[1] \in Range(CandidatesOf(p))

-----------------------------------------------------------------------------
(* POST /api/update-rules *)

\* C17: a request whose pass is still running when the ceiling has passed
\* has answered "update in progress".
C17_CeilingOnUpdateRequest ==
    \A m \in Miners \ {"startup"} :
        (miner[m].late /\ miner[m].pc \notin {"idle", "done"})
            => miner[m].response = "inProgress"

-----------------------------------------------------------------------------
(* recommendation_stats: one document per identity *)

\* C18: recommendation_stats never holds two documents of one identity.
C18_OneEntryPerIdentity == \A id \in DOMAIN stats : Len(stats[id]) <= 1

-----------------------------------------------------------------------------
(* A pass that fails *)

\* The mining pass m returns in this step
Returns(m) == miner[m].pc # "done" /\ miner'[m].pc = "done"

\* C19: when a mining pass whose read of the transactions failed returns,
\* the rules file holds the rule list that it held before the pass.
C19_FailedPassKeepsStore ==
    [][\A m \in Miners :
          (miner[m].fetchFailed /\ Returns(m) /\ committed.kind = "rules")
              => /\ file'.exists
                 /\ file'.content = JsonDump(committed.rules)]_vars

-----------------------------------------------------------------------------
(* db_connection *)

\* A caller is between the two ends of "async with self._lock"
Inside(c) == connection.caller[c].pc \in {"ping", "reconnect", "ping2"}

\* C20: at most one call of connect / ensure_connection is inside the lock
\* at a time; a call that returned left a client whose last ping was
\* answered, and a call that raised left the client None.
C20_ConnectionContract ==
    /\ Cardinality({c \in Callers : Inside(c)}) <= 1
    /\ \A c \in Callers :
           connection.caller[c].pc = "done" =>
               IF connection.caller[c].result = "returned"
               THEN connection.caller[c].left # None /\ connection.caller[c].leftPinged
               ELSE connection.caller[c].left = None

=============================================================================
